---- MODULE Spec2Model ----
(***************************************************************************)
(* Model of examples/ecdsa_utils/ecdsa_utils.c: conversion of an ECDSA     *)
(* signature between the raw pair (r, s) of fixed-width big-endian         *)
(* integers and two consecutive ASN.1 DER INTEGER TLVs.                    *)
(*                                                                         *)
(* Memory is caller owned.  A buffer is a function from 0-based byte       *)
(* offsets to bytes.  Every C function is an operator that returns its     *)
(* return value together with the bytes it stores (offset |-> byte) and    *)
(* the input offsets it loads, each computed the way the C code computes   *)
(* its pointers; the actions apply the stores to the caller's buffers.     *)
(***************************************************************************)
EXTENDS Integers, Sequences, FiniteSets

\* ------------------------------------------------------------------ bounds
\* greatest width of an exhaustively enumerated raw component
MaxWidth == 2
\* greatest length of an exhaustively enumerated input stream
MaxAsn1 == 6
\* bytes the caller owns behind the declared capacity of an output buffer
GuardLen == 2

\* ------------------------------------------------------- program constants
DER_INTEGER_MAX_LEN == 127
ASN1_DER_TAG_OFFSET == 0
ASN1_DER_LEN_OFFSET == 1
ASN1_DER_VAL_OFFSET == 2
DER_TAG_INTEGER == 2
DER_UINT_MASK == 128

\* ------------------------------------------------------------------ memory
Byte == 0..255

\* the buffer holding no byte, also the empty set of stores
NoBytes == [i \in {} |-> 0]

\* a buffer of n bytes, every byte b
Fill(n, b) == [i \in 0..(n - 1) |-> b]

\* a tuple of bytes as a buffer
Buf(sq) == [i \in 0..(Len(sq) - 1) |-> sq[i + 1]]

Size(buf) == Cardinality(DOMAIN buf)

\* the bytes buf[from .. from+n-1] as a buffer of their own
Slice(buf, from, n) == [i \in 0..(n - 1) |-> buf[from + i]]

\* buf after the stores wr; a store outside the caller's memory changes
\* nothing the caller can observe in buf (it is still recorded in wr)
Store(buf, wr) == [i \in DOMAIN buf |-> IF i \in DOMAIN wr THEN wr[i] ELSE buf[i]]

\* the stores wr made through a pointer that is base bytes further
Shift(wr, base) == [i \in {j + base : j \in DOMAIN wr} |-> wr[i - base]]

\* two sets of stores to different offsets
Join(w1, w2) == [i \in (DOMAIN w1) \cup (DOMAIN w2) |-> IF i \in DOMAIN w2 THEN w2[i] ELSE w1[i]]

\* uint8_t & DER_UINT_MASK, as a truth value
HighBit(b) == (b \div DER_UINT_MASK) % 2 = 1

\* ----------------------------------------------------------------- encoder
\* the loop that searches the beginning of the integer: the offset of the
\* first byte that is kept, never past the last byte
RECURSIVE SkipZeros(_, _, _)
SkipZeros(data, data_len, cur) ==
    IF cur < data_len - 1 /\ data[cur] = 0
    THEN SkipZeros(data, data_len, cur + 1)
    ELSE cur

\* variant of StuffingNeeded: the stuffing byte is never asked for
StuffNever(b) == FALSE
\* "check if stuffing byte needed"
StuffingNeeded(b) == HighBit(b)

\* variant of FitsOutput: the check does not count the stuffing byte
FitsBeforeStuffing(integer_field_cur, write_length, out_buf_len) ==
    ~(ASN1_DER_VAL_OFFSET + write_length - 1 > out_buf_len - 1)
\* "check if it fits in the output buffer": out_end is out_buf + out_buf_len - 1;
\* offsets are compared as the pointers are (out_buf - 1 when out_buf_len is 0)
FitsOutput(integer_field_cur, write_length, out_buf_len) ==
    ~(integer_field_cur + write_length - 1 > out_buf_len - 1)

\* "commit writes": memcpy of the kept bytes, the tag, the length and the
\* stuffing byte
EncodedStores(integer_field_cur, integer_len, data, cur_data) ==
    [i \in 0..(ASN1_DER_VAL_OFFSET + integer_len - 1) |->
        IF i = ASN1_DER_TAG_OFFSET THEN DER_TAG_INTEGER
        ELSE IF i = ASN1_DER_LEN_OFFSET THEN integer_len % 256
        ELSE IF i < integer_field_cur THEN 0
        ELSE data[cur_data + (i - integer_field_cur)]]

\* variant of Refused: the tag is stored ahead of the checks
RefusedAfterTag == [ret |-> 0, wr |-> Buf(<<DER_TAG_INTEGER>>)]
\* "return 0" ahead of "commit writes": nothing has been stored
Refused == [ret |-> 0, wr |-> NoBytes]

\* encode_der_integer(data, data_len, out_buf, out_buf_len): ret is the
\* returned size (0 on failure), wr the stores relative to out_buf
encode_der_integer(data, data_len, out_buf_len) ==
    IF data_len = 0 THEN Refused
    ELSE
    LET cur_data == SkipZeros(data, data_len, 0)
        integer_field_cur ==
            IF StuffingNeeded(data[cur_data])
            THEN ASN1_DER_VAL_OFFSET + 1 ELSE ASN1_DER_VAL_OFFSET
        write_length == data_len - cur_data
        integer_len == (integer_field_cur + write_length) - ASN1_DER_VAL_OFFSET
    IN  IF ~FitsOutput(integer_field_cur, write_length, out_buf_len)
        THEN Refused
        ELSE IF integer_len > DER_INTEGER_MAX_LEN
        THEN Refused
        ELSE [ret |-> integer_len + ASN1_DER_VAL_OFFSET,
              wr |-> EncodedStores(integer_field_cur, integer_len, data, cur_data)]

\* variant of SigLen: the size of the TLV of r is left out
SigLenOfS(out_len_r, out_len_s) == out_len_s
\* *asn_sig_len = out_len_r + out_len_s
SigLen(out_len_r, out_len_s) == out_len_r + out_len_s

\* ecdsa_rs_to_asn1(r, s, rs_len, asn_sig, asn_sig_len) with non-null
\* arguments; cap is *asn_sig_len on entry, len is *asn_sig_len on return
ecdsa_rs_to_asn1(r_in, s_in, len_in, cap_in) ==
    LET er == encode_der_integer(r_in, len_in, cap_in)
        out_len_r == er.ret
        es == encode_der_integer(s_in, len_in, cap_in - out_len_r)
        out_len_s == es.ret
        s_start == out_len_r
    IN  IF out_len_r = 0
        THEN [ok |-> FALSE, wr |-> er.wr, len |-> cap_in]
        ELSE IF out_len_s = 0
        THEN [ok |-> FALSE, wr |-> Join(er.wr, Shift(es.wr, s_start)), len |-> cap_in]
        ELSE [ok |-> TRUE, wr |-> Join(er.wr, Shift(es.wr, s_start)),
              len |-> SigLen(out_len_r, out_len_s)]

\* ----------------------------------------------------------------- decoder
\* *p for a pointer into the caller's memory; the value read outside of it
\* is not defined by the program and is fixed to 0 here
Load(buf, i) == IF i \in DOMAIN buf THEN buf[i] ELSE 0

\* the pointer buf + n, as the buffer seen through it
Advance(buf, n) == [i \in {j - n : j \in DOMAIN buf} |-> buf[i + n]]

\* "Invalid length value" is the negation
LengthValid(len) == ~(len = 0 \/ len > DER_INTEGER_MAX_LEN)

\* variant of ValueInInput: the declared length is not checked
ValueAnywhere(integer_length, asn1_len) == TRUE
\* "prevented out-of-bounds read" is the negation: asn1_end is asn1 + asn1_len
ValueInInput(integer_length, asn1_len) ==
    ~(ASN1_DER_VAL_OFFSET + integer_length - 1 > asn1_len - 1)

\* variant of SecondZero: a second zero byte is not looked for
SecondZeroAccepted(asn1, integer_field_cur) == FALSE
\* "second zero byte is an encoding error"
SecondZero(asn1, integer_field_cur) == Load(asn1, integer_field_cur) = 0

\* variant of DecodedStores: the value is copied to out_int without padding
DecodedAtFront(asn1, integer_field_cur, integer_length, out_int_len) ==
    [i \in 0..(integer_length - 1) |-> Load(asn1, integer_field_cur + i)]
\* memset(out_int, 0, padding) and memcpy(out_int + padding, ...)
DecodedStores(asn1, integer_field_cur, integer_length, out_int_len) ==
    LET padding == out_int_len - integer_length
    IN  Join([i \in 0..(padding - 1) |-> 0],
             [i \in padding..(padding + integer_length - 1) |->
                 Load(asn1, integer_field_cur + (i - padding))])

\* variant of Consumed: the stripped stuffing byte is not counted
ConsumedStripped(integer_field_cur, integer_length, length_field) ==
    ASN1_DER_VAL_OFFSET + integer_length
\* "return number of consumed ASN.1 bytes": integer_field_cur + integer_length - tag_field
Consumed(integer_field_cur, integer_length, length_field) ==
    (integer_field_cur + integer_length) - ASN1_DER_TAG_OFFSET

\* what decode_asn1_uint leaves behind when it returns 0 after the loads rd
Rejected(rd, out_int_len) ==
    [ret |-> 0, rd |-> rd, wr |-> NoBytes, out_len |-> out_int_len]

\* decode_asn1_uint(asn1, asn1_len, out_int, out_int_len): ret is the number
\* of consumed bytes (0 on failure), rd the offsets of asn1 it loads, wr the
\* stores relative to out_int, out_len is *out_int_len on return
decode_asn1_uint(asn1, asn1_len, out_int_len) ==
    IF asn1_len < ASN1_DER_VAL_OFFSET + 1 THEN Rejected({}, out_int_len)
    ELSE IF Load(asn1, ASN1_DER_TAG_OFFSET) # DER_TAG_INTEGER
    THEN Rejected({ASN1_DER_TAG_OFFSET}, out_int_len)
    ELSE
    LET length_field == Load(asn1, ASN1_DER_LEN_OFFSET)
        rd_fields == {ASN1_DER_TAG_OFFSET, ASN1_DER_LEN_OFFSET}
        \* "remove stuffing byte"
        stuffed == length_field > 1 /\ Load(asn1, ASN1_DER_VAL_OFFSET) = 0
        integer_length == IF stuffed THEN length_field - 1 ELSE length_field
        integer_field_cur ==
            IF stuffed THEN ASN1_DER_VAL_OFFSET + 1 ELSE ASN1_DER_VAL_OFFSET
        rd_checks ==
            IF length_field > 1
            THEN rd_fields \cup {ASN1_DER_VAL_OFFSET, integer_field_cur}
            ELSE rd_fields
    IN  IF ~LengthValid(length_field) THEN Rejected(rd_fields, out_int_len)
        ELSE IF ~ValueInInput(length_field, asn1_len)
        THEN Rejected(rd_fields, out_int_len)
        ELSE IF length_field > 1 /\ SecondZero(asn1, integer_field_cur)
        THEN Rejected(rd_checks, out_int_len)
        ELSE IF integer_length > out_int_len THEN Rejected(rd_checks, out_int_len)
        ELSE [ret |-> Consumed(integer_field_cur, integer_length, length_field),
              rd |-> rd_checks \cup
                     integer_field_cur..(integer_field_cur + integer_length - 1),
              wr |-> DecodedStores(asn1, integer_field_cur, integer_length, out_int_len),
              out_len |-> integer_length]

\* asn1_s = asn1 + consumed_r
StartOfS(consumed_r) == consumed_r

\* asn1_to_ecdsa_rs_sep(asn1, asn1_len, r, r_len, s, s_len) with non-null
\* arguments; r_cap and s_cap are *r_len and *s_len on entry.  rd holds
\* offsets of asn1, wr_r and wr_s stores relative to r and to s
asn1_to_ecdsa_rs_sep(asn1, len_in, r_cap, s_cap) ==
    LET dr == decode_asn1_uint(asn1, len_in, r_cap)
        consumed_r == dr.ret
        asn1_s == Advance(asn1, StartOfS(consumed_r))
        asn1_s_len == len_in - consumed_r
        ds == decode_asn1_uint(asn1_s, asn1_s_len, s_cap)
        rd_s == {i + StartOfS(consumed_r) : i \in ds.rd}
    IN  IF consumed_r = 0
        THEN [ok |-> FALSE, rd |-> dr.rd, wr_r |-> dr.wr, wr_s |-> NoBytes,
              r_len |-> dr.out_len, s_len |-> s_cap]
        ELSE [ok |-> ds.ret # 0, rd |-> dr.rd \cup rd_s,
              wr_r |-> dr.wr, wr_s |-> ds.wr,
              r_len |-> dr.out_len, s_len |-> ds.out_len]

\* variant of OddLength: an odd length is let through
OddAccepted(len_in) == FALSE
\* (rs_len % 2) != 0
OddLength(len_in) == len_in % 2 # 0

\* asn1_to_ecdsa_rs(asn1, asn1_len, rs, rs_len) with non-null asn1 and rs;
\* "rs_len == NULL" compares the length itself with 0.  wr_r is relative to
\* rs, wr_s to rs + component_length
asn1_to_ecdsa_rs(asn1, len_in, out_len) ==
    IF out_len = 0 \/ OddLength(out_len)
    THEN [ok |-> FALSE, rd |-> {}, wr_r |-> NoBytes, wr_s |-> NoBytes,
          r_len |-> out_len \div 2, s_len |-> out_len \div 2]
    ELSE LET component_length == out_len \div 2
         IN  asn1_to_ecdsa_rs_sep(asn1, len_in, component_length, component_length)

\* ------------------------------------------------------------------- state
VARIABLES
    pc,           \* what the caller has done so far
    r, s, rs_len, \* the arguments r, s, rs_len of ecdsa_rs_to_asn1
    asn_sig,      \* the buffer ecdsa_rs_to_asn1 writes
    asn_sig_len,  \* the cell *asn_sig_len
    enc,          \* the last encoder call: result, capacity on entry, stores
    asn1,         \* the stream handed to a decoder
    asn1_len,     \* its declared length
    rs,           \* the buffer asn1_to_ecdsa_rs writes
    r_out, s_out, \* the buffers asn1_to_ecdsa_rs_sep writes
    r_len, s_len, \* the cells *r_len and *s_len
    dec           \* the last decoder call: result, capacities on entry, loads, stores

vars == <<pc, r, s, rs_len, asn_sig, asn_sig_len, enc,
          asn1, asn1_len, rs, r_out, s_out, r_len, s_len, dec>>

\* a buffer of n bytes the caller has allocated and not yet handed out
Fresh(n) == Fill(n, 170)

NoEnc == [ok |-> FALSE, cap |-> 0, wr |-> NoBytes]
NoDec == [ok |-> FALSE, r_cap |-> 0, s_cap |-> 0, rd |-> {},
          wr_r |-> NoBytes, wr_s |-> NoBytes]

\* ------------------------------------------------------------------ inputs
\* byte values of the exhaustively enumerated raw components
SampleBytes == {0, 1, 128, 255}

\* widths of the raw components given by pattern: the width of a P-256
\* coordinate and the widths around the single-byte length limit
PatternWidths == {32, DER_INTEGER_MAX_LEN - 1, DER_INTEGER_MAX_LEN, DER_INTEGER_MAX_LEN + 1}

\* z zero bytes followed by w - z bytes b
Pattern(w, z, b) == [i \in 0..(w - 1) |-> IF i < z THEN 0 ELSE b]

\* the raw components of width w the model encodes
RawInputs(w) ==
    IF w <= MaxWidth THEN [0..(w - 1) -> SampleBytes]
    ELSE {Pattern(w, z, b) : z \in {0, 1, 10, w - 1}, b \in {1, 127, 255}}

\* the output capacities tried for width w
Capacities(w) ==
    IF w <= MaxWidth THEN 0..(2 * (w + 3))
    ELSE {0, 1, 2, 3, 5, 6, w + 2, w + 3, w + 5, w + 6, 2 * w + 4, 2 * w + 5, 2 * (w + 3)}

\* byte values of the exhaustively enumerated streams: a wrong tag and the
\* length 0, the length 1, the tag and the length 2, a length above 127
StreamBytes == {0, 1, 2, 128}

\* one TLV with length byte len, first value byte first, the others b
Tlv(len, first, b) ==
    [i \in 0..(len + 1) |->
        IF i = 0 THEN DER_TAG_INTEGER ELSE IF i = 1 THEN len
        ELSE IF i = 2 THEN first ELSE b]

\* buffer a followed by buffer b
Cat(a, b) == [i \in 0..(Size(a) + Size(b) - 1) |-> IF i < Size(a) THEN a[i] ELSE b[i - Size(a)]]

\* streams longer than MaxAsn1: stuffing bytes in r and in s, values that
\* begin with 00 00, a byte behind the second TLV, length bytes around 127
CraftedStreams ==
    {Buf(<<2, 3, 0, 0, 1, 2, 1, 1>>), Buf(<<2, 1, 1, 2, 3, 0, 0, 1>>),
     Buf(<<2, 2, 0, 128, 2, 2, 0, 255>>), Buf(<<2, 2, 0, 1, 2, 2, 0, 128>>),
     Buf(<<2, 2, 1, 0, 2, 2, 128, 0>>), Buf(<<2, 1, 1, 2, 1, 1, 2, 1, 1>>)}
    \cup {Cat(Tlv(len, first, 1), Buf(<<2, 1, 1>>)) :
            len \in {DER_INTEGER_MAX_LEN - 1, DER_INTEGER_MAX_LEN, DER_INTEGER_MAX_LEN + 1, 255},
            first \in {0, 1}}
    \cup {Cat(Buf(<<2, 1, 1>>), Tlv(len, first, 1)) :
            len \in {DER_INTEGER_MAX_LEN, DER_INTEGER_MAX_LEN + 1}, first \in {0, 1}}

\* the streams the model decodes
Streams ==
    UNION {[0..(n - 1) -> StreamBytes] : n \in 0..MaxAsn1} \cup CraftedStreams

\* the component capacities tried for a stream of n bytes
ComponentCaps(n) ==
    IF n <= MaxAsn1 + 3 THEN 0..MaxWidth
    ELSE {1, DER_INTEGER_MAX_LEN - 1, DER_INTEGER_MAX_LEN}

\* ------------------------------------------------- encoding, then decoding
Init ==
    /\ pc = "start"
    /\ \E w \in (0..MaxWidth) \cup PatternWidths :
         /\ rs_len = w
         /\ r \in RawInputs(w)
         /\ s \in RawInputs(w)
         /\ asn_sig_len \in Capacities(w)
    /\ asn_sig = Fresh(asn_sig_len + GuardLen)
    /\ enc = NoEnc
    /\ asn1 = NoBytes /\ asn1_len = 0
    /\ rs = NoBytes /\ r_out = NoBytes /\ s_out = NoBytes
    /\ r_len = 0 /\ s_len = 0
    /\ dec = NoDec

\* the caller calls ecdsa_rs_to_asn1(r, s, rs_len, asn_sig, &asn_sig_len)
Encode ==
    /\ pc = "start"
    /\ LET e == ecdsa_rs_to_asn1(r, s, rs_len, asn_sig_len)
       IN  /\ asn_sig' = Store(asn_sig, e.wr)
           /\ asn_sig_len' = e.len
           /\ enc' = [ok |-> e.ok, cap |-> asn_sig_len, wr |-> e.wr]
    /\ pc' = "encoded"
    /\ UNCHANGED <<r, s, rs_len, asn1, asn1_len, rs, r_out, s_out, r_len, s_len, dec>>

\* the caller hands the signature it got to
\* asn1_to_ecdsa_rs(asn_sig, asn_sig_len, rs, 2 * rs_len)
DecodeEncoded ==
    /\ pc = "encoded" /\ enc.ok
    /\ LET n == 2 * rs_len
           d == asn1_to_ecdsa_rs(asn_sig, asn_sig_len, n)
       IN  /\ asn1' = asn_sig /\ asn1_len' = asn_sig_len
           /\ rs' = Store(Fresh(n + GuardLen),
                          Join(d.wr_r, Shift(d.wr_s, n \div 2)))
           /\ dec' = [ok |-> d.ok, r_cap |-> n \div 2, s_cap |-> n \div 2,
                      rd |-> d.rd, wr_r |-> d.wr_r, wr_s |-> d.wr_s]
    /\ pc' = "decoded"
    /\ UNCHANGED <<r, s, rs_len, asn_sig, asn_sig_len, enc, r_out, s_out, r_len, s_len>>

Next == Encode \/ DecodeEncoded

Spec == Init /\ [][Next]_vars

\* ------------------------------------------------- decoding, then encoding
InitDec ==
    /\ pc = "start"
    /\ asn1 \in Streams
    /\ asn1_len = Size(asn1)
    /\ r = NoBytes /\ s = NoBytes /\ rs_len = 0
    /\ asn_sig = NoBytes /\ asn_sig_len = 0
    /\ enc = NoEnc
    /\ rs = NoBytes /\ r_out = NoBytes /\ s_out = NoBytes
    /\ r_len = 0 /\ s_len = 0
    /\ dec = NoDec

\* the caller calls asn1_to_ecdsa_rs(asn1, asn1_len, rs, n) with a buffer of
\* n bytes
DecodeFixed ==
    /\ pc = "start"
    /\ \E c \in ComponentCaps(asn1_len), odd \in {0, 1} :
         LET n == 2 * c + odd
             d == asn1_to_ecdsa_rs(asn1, asn1_len, n)
         IN  /\ rs' = Store(Fresh(n + GuardLen),
                            Join(d.wr_r, Shift(d.wr_s, n \div 2)))
             /\ rs_len' = n
             /\ dec' = [ok |-> d.ok, r_cap |-> n \div 2, s_cap |-> n \div 2,
                        rd |-> d.rd, wr_r |-> d.wr_r, wr_s |-> d.wr_s]
    /\ pc' = "fixed"
    /\ UNCHANGED <<r, s, asn_sig, asn_sig_len, enc, asn1, asn1_len,
                   r_out, s_out, r_len, s_len>>

\* the caller calls asn1_to_ecdsa_rs_sep(asn1, asn1_len, r_out, &r_len,
\* s_out, &s_len) with buffers of cr and cs bytes
DecodeSep ==
    /\ pc = "start"
    /\ \E cr \in ComponentCaps(asn1_len), cs \in ComponentCaps(asn1_len) :
         LET d == asn1_to_ecdsa_rs_sep(asn1, asn1_len, cr, cs)
         IN  /\ r_out' = Store(Fresh(cr + GuardLen), d.wr_r)
             /\ s_out' = Store(Fresh(cs + GuardLen), d.wr_s)
             /\ r_len' = d.r_len
             /\ s_len' = d.s_len
             /\ dec' = [ok |-> d.ok, r_cap |-> cr, s_cap |-> cs,
                        rd |-> d.rd, wr_r |-> d.wr_r, wr_s |-> d.wr_s]
    /\ pc' = "sep"
    /\ UNCHANGED <<r, s, rs_len, asn_sig, asn_sig_len, enc, asn1, asn1_len, rs>>

\* the caller encodes the two halves of an accepted rs again, into a buffer
\* large enough for any two components of that width
EncodeDecoded ==
    /\ pc = "fixed" /\ dec.ok
    /\ LET w == rs_len \div 2
           cap == 2 * (w + 3)
           e == ecdsa_rs_to_asn1(Slice(rs, 0, w), Slice(rs, w, w), w, cap)
       IN  /\ r' = Slice(rs, 0, w)
           /\ s' = Slice(rs, w, w)
           /\ asn_sig' = Store(Fresh(cap + GuardLen), e.wr)
           /\ asn_sig_len' = e.len
           /\ enc' = [ok |-> e.ok, cap |-> cap, wr |-> e.wr]
    /\ pc' = "encoded"
    /\ UNCHANGED <<rs_len, asn1, asn1_len, rs, r_out, s_out, r_len, s_len, dec>>

NextDec == DecodeFixed \/ DecodeSep \/ EncodeDecoded

SpecDec == InitDec /\ [][NextDec]_vars

\* ------------------------------------------------------ reference notions
\* the offset of the first non-zero byte of data, of its last byte when
\* there is none
KeptFrom(data, n) ==
    LET nz == {i \in 0..(n - 1) : data[i] # 0}
    IN  IF nz = {} THEN n - 1 ELSE CHOOSE i \in nz : \A j \in nz : i <= j

\* the length of the value field of the minimal DER INTEGER of data
ValueLen(data, n) ==
    (n - KeptFrom(data, n)) + (IF data[KeptFrom(data, n)] >= 128 THEN 1 ELSE 0)

\* the minimal DER INTEGER of data: 02, L, 00 when bit 7 of the first kept
\* byte is set, then the kept bytes
MinimalTlv(data, n) ==
    LET k == KeptFrom(data, n)
    IN  Cat(Buf(<<2, ValueLen(data, n)>>),
            Cat(IF data[k] >= 128 THEN Buf(<<0>>) ELSE NoBytes, Slice(data, k, n - k)))

\* the encoder has been called
Encoded == pc \in {"encoded", "decoded"}

\* ------------------------------------------------------------------ claims
\* C1: round trip.  With room for two TLVs of the greatest size a width w in
\* 1..126 can need, ecdsa_rs_to_asn1 succeeds; and asn1_to_ecdsa_rs on a
\* stream ecdsa_rs_to_asn1 produced, with the reported length and
\* rs_len = 2*w, succeeds and yields r followed by s, byte for byte.
RoundTrip ==
    /\ (Encoded /\ rs_len \in 1..(DER_INTEGER_MAX_LEN - 1) /\ enc.cap >= 2 * (rs_len + 3))
          => enc.ok
    /\ pc = "decoded" =>
          /\ dec.ok
          /\ Slice(rs, 0, rs_len) = r
          /\ Slice(rs, rs_len, rs_len) = s

\* 32 bytes of FF and the 32-byte value 1 have gone through both calls
RoundTripWitness ==
    /\ pc = "decoded" /\ dec.ok /\ rs_len = 32
    /\ r = Pattern(32, 0, 255) /\ s = Pattern(32, 31, 1)
    /\ Slice(rs, 0, 32) = r

\* the TLV stored at offset o of the written bytes is the minimal one of data
IsMinimalTlvOf(wr, o, data, n) ==
    LET k == KeptFrom(data, n)
        L == wr[o + 1]
    IN  /\ wr[o] = 2
        /\ L \in 1..127
        /\ ~(L >= 2 /\ wr[o + 2] = 0 /\ wr[o + 3] = 0)
        /\ IF data[k] >= 128
           THEN L = (n - k) + 1 /\ wr[o + 2] = 0 /\ wr[o + 3] = data[k]
           ELSE L = n - k /\ wr[o + 2] = data[k]

\* C2: every TLV encode_der_integer writes has tag 02, a length byte in
\* 1..127 and a value that does not begin with two zero bytes; the value
\* begins with a stuffing byte 00 exactly when bit 7 of the first kept byte is
\* set; a component whose value field needs more than 127 bytes is refused.
Minimality ==
    Encoded =>
      /\ enc.wr # NoBytes => IsMinimalTlvOf(enc.wr, 0, r, rs_len)
      /\ enc.ok => IsMinimalTlvOf(enc.wr, 2 + enc.wr[1], s, rs_len)
      /\ (rs_len > 0 /\ ValueLen(r, rs_len) > 127) => (~enc.ok /\ enc.wr = NoBytes)
      /\ (rs_len > 0 /\ ValueLen(s, rs_len) > 127) => ~enc.ok

\* 126 bytes of FF were encoded with a stuffing byte and the length byte 127
MinimalityWitness ==
    /\ pc = "encoded" /\ enc.ok /\ rs_len = 126
    /\ r = Pattern(126, 0, 255)
    /\ enc.wr[1] = 127 /\ enc.wr[2] = 0 /\ enc.wr[3] = 255

\* C3: ecdsa_rs_to_asn1 stores no byte at an offset >= the capacity it was
\* given (the bytes behind the capacity keep their value), fails whenever the
\* two TLVs together need more than the capacity, and reports a length
\* <= the capacity on success.
EncodeBounds ==
    Encoded =>
      /\ \A i \in DOMAIN enc.wr : i < enc.cap
      /\ \A i \in DOMAIN asn_sig : i >= enc.cap => asn_sig[i] = Fresh(1)[0]
      /\ (rs_len > 0 /\ ValueLen(r, rs_len) + ValueLen(s, rs_len) + 4 > enc.cap)
            => ~enc.ok
      /\ enc.ok => asn_sig_len <= enc.cap

\* the TLV of r was written and filled the buffer up to its last two bytes,
\* so that of s was refused
EncodeBoundsWitness ==
    /\ pc = "encoded" /\ ~enc.ok
    /\ enc.wr # NoBytes
    /\ Size(enc.wr) + 2 = enc.cap

\* C7 as claimed: whenever ecdsa_rs_to_asn1 fails, every byte of the output
\* buffer and *asn_sig_len are as they were before the call.
NoWriteOnEncodeFailure ==
    (Encoded /\ ~enc.ok) =>
      /\ asn_sig = Fresh(enc.cap + GuardLen)
      /\ asn_sig_len = enc.cap

\* r has a TLV of its own that fits the capacity
FitsAlone(data, n, cap) ==
    /\ n > 0
    /\ ValueLen(data, n) <= 127
    /\ ValueLen(data, n) + 2 <= cap

\* C7 as amended: whenever ecdsa_rs_to_asn1 fails, *asn_sig_len is as it was
\* before the call and no TLV is left half written: when the TLV of r was
\* refused every byte of the output buffer is as before, and when the TLV of
\* r was written and that of s refused, the buffer holds the complete TLV of
\* r at offset 0 and every byte behind it is as before.
WholeTlvsOnEncodeFailure ==
    (Encoded /\ ~enc.ok) =>
      /\ asn_sig_len = enc.cap
      /\ asn_sig = IF FitsAlone(r, rs_len, enc.cap)
                   THEN Store(Fresh(enc.cap + GuardLen), MinimalTlv(r, rs_len))
                   ELSE Fresh(enc.cap + GuardLen)

\* the TLV of r (02 01 01) was written, then s = 80 00 needed 5 bytes where
\* 4 were left
EncodeFailureWitness ==
    /\ pc = "encoded" /\ ~enc.ok
    /\ r = Buf(<<0, 1>>) /\ s = Buf(<<128, 0>>) /\ enc.cap = 7
    /\ Slice(asn_sig, 0, 3) = Buf(<<2, 1, 1>>)
    /\ asn_sig[3] = Fresh(1)[0]

\* C8: when ecdsa_rs_to_asn1 succeeds the buffer holds the minimal TLV of r
\* at offset 0, that of s right behind it, and *asn_sig_len is the sum of
\* their sizes; r = s = the 32-byte value 1 gives 02 01 01 02 01 01, and 32
\* bytes of FF give the length byte 21 (hex) and the value 00 FF .. FF.
ExactStream ==
    (Encoded /\ enc.ok) =>
      /\ asn_sig_len = (ValueLen(r, rs_len) + 2) + (ValueLen(s, rs_len) + 2)
      /\ Slice(asn_sig, 0, asn_sig_len) = Cat(MinimalTlv(r, rs_len), MinimalTlv(s, rs_len))
      /\ (r = Pattern(32, 31, 1) /\ s = r) =>
            (asn_sig_len = 6 /\ Slice(asn_sig, 0, 6) = Buf(<<2, 1, 1, 2, 1, 1>>))
      /\ r = Pattern(32, 0, 255) =>
            Slice(asn_sig, 0, 35) = Cat(Buf(<<2, 33, 0>>), Fill(32, 255))

\* r = 32 bytes of FF and s = the 32-byte value 1 were encoded in 38 bytes
ExactStreamWitness ==
    /\ pc = "encoded" /\ enc.ok
    /\ r = Pattern(32, 0, 255) /\ s = Pattern(32, 31, 1)
    /\ asn_sig_len = 38
    /\ Slice(asn_sig, 35, 3) = Buf(<<2, 1, 1>>)

\* a decoder has been called on asn1
Decoded == pc \in {"fixed", "sep"}

\* the output buffers of the last decoder call keep their bytes from the
\* offset from on
Untouched(buf, from) == \A i \in DOMAIN buf : i >= from => buf[i] = Fresh(1)[0]

\* C4: asn1_to_ecdsa_rs_sep and asn1_to_ecdsa_rs load no input byte at an
\* offset >= asn1_len and store no byte of r or of s at an offset >= the
\* capacity that component had on entry.
DecodeBounds ==
    Decoded =>
      /\ \A i \in dec.rd : 0 <= i /\ i < asn1_len
      /\ \A i \in DOMAIN dec.wr_r : 0 <= i /\ i < dec.r_cap
      /\ \A i \in DOMAIN dec.wr_s : 0 <= i /\ i < dec.s_cap
      /\ pc = "sep" => (Untouched(r_out, dec.r_cap) /\ Untouched(s_out, dec.s_cap))
      /\ pc = "fixed" => Untouched(rs, rs_len)

\* r was decoded and the TLV of s, which declares one value byte more than
\* the input has, was refused after its tag and its length were loaded
DecodeBoundsWitness ==
    /\ pc = "sep" /\ ~dec.ok
    /\ asn1 = Buf(<<2, 1, 1, 2, 2, 1>>)
    /\ dec.rd = {0, 1, 2, 3, 4}
    /\ dec.r_cap = 2 /\ DOMAIN dec.wr_r = {0, 1}

\* the input holds at offset o a TLV whose length byte is 0 or above 127, or
\* whose value field begins with two zero bytes
Malformed(a, n, o) ==
    /\ o + 1 < n
    /\ \/ a[o + 1] = 0
       \/ a[o + 1] >= 128
       \/ a[o + 1] >= 2 /\ o + 3 < n /\ a[o + 2] = 0 /\ a[o + 3] = 0

\* C5: both signature decoders fail when the TLV of r, or the TLV behind it,
\* has a value field that begins with two zero bytes, the length byte 0 or a
\* length byte of 128 or more.
RejectsMalformed ==
    (Decoded /\ asn1_len >= 2
             /\ (Malformed(asn1, asn1_len, 0) \/ Malformed(asn1, asn1_len, 2 + asn1[1])))
        => ~dec.ok

\* r was decoded into a buffer with room, then the TLV of s with the value
\* 00 00 01 was refused
RejectsMalformedWitness ==
    /\ pc = "sep" /\ ~dec.ok
    /\ asn1 = Buf(<<2, 1, 1, 2, 3, 0, 0, 1>>)
    /\ dec.r_cap = 2 /\ dec.s_cap = 2
    /\ r_len = 1 /\ Slice(r_out, 0, 2) = Buf(<<0, 1>>)

\* C6: with an odd rs_len asn1_to_ecdsa_rs fails, loads no input byte and
\* stores no byte of rs.
OddLengthFails ==
    (pc = "fixed" /\ rs_len % 2 = 1) =>
      /\ ~dec.ok
      /\ dec.rd = {}
      /\ dec.wr_r = NoBytes /\ dec.wr_s = NoBytes
      /\ rs = Fresh(rs_len + GuardLen)

\* a stream that decodes into two bytes was refused for a buffer of three
OddLengthWitness ==
    /\ pc = "fixed" /\ rs_len = 3 /\ ~dec.ok
    /\ asn1 = Buf(<<2, 1, 1, 2, 1, 1>>)

\* the component decoded from the TLV at offset o of the input, as a buffer
\* of cap bytes: zero bytes, then the value without its stuffing byte
Component(a, o, cap) ==
    LET L == a[o + 1]
        k == IF L > 1 /\ a[o + 2] = 0 THEN L - 1 ELSE L
    IN  [i \in 0..(cap - 1) |-> IF i < cap - k THEN 0 ELSE a[(o + 2 + L - cap) + i]]

\* the width of that component
Width(a, o) == IF a[o + 1] > 1 /\ a[o + 2] = 0 THEN a[o + 1] - 1 ELSE a[o + 1]

\* C9: when asn1_to_ecdsa_rs_sep succeeds, r comes from the TLV at offset 0
\* and s from the TLV at offset 2 + the length byte of r; each buffer holds
\* zero bytes followed by the value without its stuffing byte, and each
\* length cell holds the width of that value.
SepLayout ==
    (pc = "sep" /\ dec.ok) =>
      LET o == 2 + Load(asn1, 1)
      IN  /\ asn1_len > 2
          /\ o + 2 < asn1_len
          /\ o + 2 + asn1[o + 1] <= asn1_len
          /\ r_len = Width(asn1, 0) /\ r_len <= dec.r_cap
          /\ s_len = Width(asn1, o) /\ s_len <= dec.s_cap
          /\ Slice(r_out, 0, dec.r_cap) = Component(asn1, 0, dec.r_cap)
          /\ Slice(s_out, 0, dec.s_cap) = Component(asn1, o, dec.s_cap)

\* 00 80 and 00 FF were decoded into a buffer of two bytes and one of one
SepLayoutWitness ==
    /\ pc = "sep" /\ dec.ok
    /\ asn1 = Buf(<<2, 2, 0, 128, 2, 2, 0, 255>>)
    /\ dec.r_cap = 2 /\ dec.s_cap = 1
    /\ r_len = 1 /\ s_len = 1
    /\ Slice(r_out, 0, 2) = Buf(<<0, 128>>) /\ s_out[0] = 255

\* C10: a stream asn1_to_ecdsa_rs accepts with rs_len = 2*w is the stream
\* ecdsa_rs_to_asn1 produces for the decoded r and s: encoding them again
\* gives the asn1_len input bytes back.
CanonicalAcceptance ==
    (pc = "encoded") =>
      /\ enc.ok
      /\ asn_sig_len = asn1_len
      /\ Slice(asn_sig, 0, asn_sig_len) = asn1

====
